---- MODULE Spec2Model ----
(***************************************************************************)
(* Block-quantized (4 bit, block size 32) weight decode and matmul.        *)
(*                                                                         *)
(*  - SpecKernel models contrib_ops/cuda/quantization/                     *)
(*    dequantize_blockwise.cu: the host entry point Dequantize4Bits and    *)
(*    the grid of Dequantize4BitsKernel threads it launches.               *)
(*  - Spec models contrib_ops/cpu/quantization/                            *)
(*    matmul_with_quant_weight.cc: one call of                             *)
(*    MatMulWithQuantWeight::Compute, statement by statement.              *)
(*                                                                         *)
(* Scales are integers, so the float arithmetic of the float instantiation *)
(* is exact and is modelled by integer arithmetic.  All int values stay    *)
(* far below 2^31 within the bounds, so no int wraps.                      *)
(***************************************************************************)
EXTENDS Integers, Naturals, Sequences, FiniteSets, TLC

\* ------------------------------------------------------------------ bounds
\* rows n of the weight matrix handed to Dequantize4Bits: 1..MaxN
MaxN == 3
\* columns k handed to Dequantize4Bits: 32, 64 and 32 * MaxKBlocks
MaxKBlocks == 32

\* GridDim::maxThreadsPerBlock, the thread count of every launch
\* (dequantize_blockwise.cu:76,81; the enum is set to 256 by
\* core/providers/cuda/cu_inc/common.cuh, included at line 9).
maxThreadsPerBlock == 256

RECURSIVE Pow2(_)
Pow2(j) == IF j = 0 THEN 1 ELSE 2 * Pow2(j - 1)

CeilDiv(a, b) == (a + b - 1) \div b

\* a null pointer (zero_points may be null)
NullPtr == <<>>

\* ------------------------------------------------------- kernel: variables
VARIABLES
  gpc,          \* "call" | "threw" | "running" | "done" | "fault"
  n, k,         \* arguments of Dequantize4Bits
  block_size,   \* argument of Dequantize4Bits
  quant_data,   \* packed bytes, n*k/2 of them
  scales_data,  \* one scale per block
  zero_points,  \* NullPtr or one zero point per block
  output,       \* the stores made to the output tensor so far, as pairs
                \* <<index, value>>; an index no thread stored to keeps
                \* whatever the buffer held
  launch,       \* the kernel arguments and grid of the launch
  pending,      \* blockIdx.x values whose threads have not run yet
  ub            \* "none" | "stray" | "fault": what an out-of-range access did

kvars == <<gpc, n, k, block_size, quant_data, scales_data, zero_points,
           output, launch, pending, ub>>

\* ------------------------------------------------------- kernel: the inputs
BlockSizes == {16, 32, 64}
KValues == {32, 64, 32 * MaxKBlocks}

\* The tensors' contents are drawn from seeds:
\*   packed byte i of the blob: (a*i + c) mod 256 for quant = <<a, c>>
\*   scale of block b: s0 + s1 * (b mod 3) for scale = <<s0, s1>>
\*   zero point of block b: (z0 + z1*b) mod 16 for a seed <<z0, z1>>
\* (quant <<34, 16>> packs the nibbles 0, 1, 2, ... in order: 0x10, 0x32, ...)
DataSeeds == {[quant |-> <<34, 16>>, scale |-> <<2, 0>>],
              [quant |-> <<37, 11>>, scale |-> <<-3, 1>>]}
ZeroPointSeeds == {<<8, 0>>, <<3, 5>>}

NoLaunch == [gridDim |-> 0, blockDim |-> 0, k |-> 0, k_block |-> 0,
             block_size |-> 0, block_blob_size |-> 0, blocks_per_tb |-> 0]

KernelInputs ==
  /\ gpc = "call"
  /\ n \in 1..MaxN
  /\ k \in KValues
  /\ block_size \in BlockSizes
  /\ \E d \in DataSeeds :
       /\ quant_data = [i \in 0..((n * k) \div 2 - 1) |->
                          ((d.quant[1] * i) + d.quant[2]) % 256]
       /\ scales_data = [b \in 0..(n * CeilDiv(k, block_size) - 1) |->
                           d.scale[1] + (d.scale[2] * (b % 3))]
  /\ \/ zero_points = NullPtr
     \/ \E z \in ZeroPointSeeds :
          zero_points = [b \in 0..(n * CeilDiv(k, block_size) - 1) |-> (z[1] + (z[2] * b)) % 16]
  /\ output = {}
  /\ launch = NoLaunch
  /\ pending = {}
  /\ ub = "none"

\* The tensors' extents, as the caller allocated them.
OutputSize == n * k
QuantBytes == (n * k) \div 2
TotalBlocks == n * CeilDiv(k, block_size)

\* ------------------------------------------------ kernel: the device code
\* uint8_t zp parameter of DequantizeEightElements: T zero_point converted
ToUint8(x) == x % 256

\* The aligned 32-bit little-endian load of line 57.  A uint32_t does not fit
\* TLC's signed 32-bit integers, so the word is kept as its two
\* 16-bit halves: value = lo + 65536 * hi.
Load32(bytes, byte_offset) ==
  [lo |-> bytes[byte_offset] + 256 * bytes[byte_offset + 1],
   hi |-> bytes[byte_offset + 2] + 256 * bytes[byte_offset + 3]]

\* (values_quant >> s) & 0xF, for the shifts 0, 4, ..., 28 the code uses
ShiftMask(values_quant, s) ==
  IF s < 16 THEN (values_quant.lo \div Pow2(s)) % 16
            ELSE (values_quant.hi \div Pow2(s - 16)) % 16

\* mutant: the nibbles of every byte taken high first
DequantizeEightElementsSwapped(values_quant, scale, zp) ==
  LET zp_adjust == (0 - scale) * zp
  IN  [j \in 0..7 |->
        ShiftMask(values_quant, 4 * (IF j % 2 = 0 THEN j + 1 ELSE j - 1)) * scale
          + zp_adjust]

DequantizeEightElements(values_quant, scale, zp) ==
  LET zp_adjust == (0 - scale) * zp
  IN  [j \in 0..7 |-> ShiftMask(values_quant, 4 * j) * scale + zp_adjust]

BlockId(bx, tx, l) == bx * l.blocks_per_tb + (tx * 8) \div l.block_size

ElementOffset(bx, tx, l) ==
  (BlockId(bx, tx, l) * l.block_size) + ((tx * 8) % l.block_size)

\* mutant: a missing table read as zero point 0
ZeroPointDefaultZero(zps, block_id) ==
  IF zps # NullPtr THEN zps[block_id] ELSE 0

ZeroPoint(zps, block_id) ==
  IF zps # NullPtr THEN zps[block_id] ELSE 8

\* Every address one thread touches lies inside the tensors.
InBounds(bx, tx, l) ==
  LET block_id == BlockId(bx, tx, l)
      element_offset == ElementOffset(bx, tx, l)
  IN  /\ block_id < TotalBlocks
      /\ element_offset + 8 <= OutputSize
      /\ element_offset \div 2 + 4 <= QuantBytes

\* What one in-range thread stores: [at |-> first index, vals |-> 8 values].
Dequantize4BitsKernel(bx, tx, l, quant, scales, zps) ==
  LET block_id == BlockId(bx, tx, l)
      element_offset == ElementOffset(bx, tx, l)
      quant_value == Load32(quant, element_offset \div 2)
      scale == scales[block_id]
      zero_point == ZeroPoint(zps, block_id)
  IN  [at |-> element_offset,
       vals |-> DequantizeEightElements(quant_value, scale, ToUint8(zero_point))]

\* The stores of one thread: pairs <<output index, value>>.
ThreadStores(bx, tx, l, zps) ==
  LET r == Dequantize4BitsKernel(bx, tx, l, quant_data, scales_data, zps)
  IN  {<<r.at + j, r.vals[j]>> : j \in 0..7}

\* The stores of the in-range threads of thread block bx.
BlockStores(bx, l, zps) ==
  UNION {ThreadStores(bx, tx, l, zps) :
           tx \in {t \in 0..(l.blockDim - 1) : InBounds(bx, t, l)}}

AllInRange(bx, l) == {tx \in 0..(l.blockDim - 1) : ~InBounds(bx, tx, l)} = {}

\* ------------------------------------------------- kernel: the host action
BlocksPerTb(bs) == (maxThreadsPerBlock * 8) \div bs

\* mutant: the grid size rounded down instead of up
BlocksPerGridFloor(nn, k_blocks, blocks_per_tb) == (nn * k_blocks) \div blocks_per_tb

BlocksPerGrid(nn, k_blocks, blocks_per_tb) == CeilDiv(nn * k_blocks, blocks_per_tb)

\* ORT_ENFORCE(k % block_size == 0), the only check before the launch
LaunchEnforce(kk, bs) == kk % bs = 0

Dequantize4Bits ==
  /\ gpc = "call"
  /\ IF ~LaunchEnforce(k, block_size)
       THEN /\ gpc' = "threw"
            /\ UNCHANGED <<launch, pending>>
       ELSE LET blocks_per_tb == BlocksPerTb(block_size)
                k_blocks == k \div block_size
                blocks_per_grid == BlocksPerGrid(n, k_blocks, blocks_per_tb)
            IN  /\ launch' = [gridDim |-> blocks_per_grid,
                              blockDim |-> maxThreadsPerBlock,
                              k |-> k, k_block |-> k_blocks,
                              block_size |-> block_size,
                              block_blob_size |-> block_size \div 2,
                              blocks_per_tb |-> blocks_per_tb]
                /\ pending' = 0..(blocks_per_grid - 1)
                /\ gpc' = "running"
  /\ UNCHANGED <<n, k, block_size, quant_data, scales_data, zero_points,
                 output, ub>>

\* The threads of one thread block run; all of them are in range.
KernelBlock(bx) ==
  /\ gpc = "running"
  /\ bx \in pending
  /\ AllInRange(bx, launch)
  /\ output' = output \cup BlockStores(bx, launch, zero_points)
  /\ pending' = pending \ {bx}
  /\ gpc' = IF pending' = {} THEN "done" ELSE "running"
  /\ UNCHANGED <<n, k, block_size, quant_data, scales_data, zero_points, launch, ub>>

\* The threads of one thread block run and some of them are out of range: the
\* kernel has no bounds check, so those threads load and store past the end
\* of the tensors.  Either the accesses hit other mapped memory (the in-range
\* threads proceed as usual) or the device raises an illegal-address fault,
\* which aborts the launch with the in-range stores of this thread block
\* either landed or not.
KernelBlockOutOfRange(bx) ==
  /\ gpc = "running"
  /\ bx \in pending
  /\ ~AllInRange(bx, launch)
  /\ \/ /\ ub' = "stray"
        /\ output' = output \cup BlockStores(bx, launch, zero_points)
        /\ pending' = pending \ {bx}
        /\ gpc' = IF pending' = {} THEN "done" ELSE "running"
     \/ /\ ub' = "fault"
        /\ gpc' = "fault"
        /\ pending' = pending
        /\ \/ output' = output
           \/ output' = output \cup BlockStores(bx, launch, zero_points)
  /\ UNCHANGED <<n, k, block_size, quant_data, scales_data, zero_points, launch>>


\* Between calls the kernel's variables rest at these values.
KernelParked ==
  /\ gpc = "parked"
  /\ n = 0
  /\ k = 0
  /\ block_size = 0
  /\ quant_data = <<>>
  /\ scales_data = <<>>
  /\ zero_points = NullPtr
  /\ output = {}
  /\ launch = NoLaunch
  /\ pending = {}
  /\ ub = "none"

\* ------------------------------------------ MatMulWithQuantWeight::Compute
\* bounds of the operator's inputs
\* rows N_ of the weight: 1..MaxRows
MaxRows == 2
\* rows M of the activation: 0..MaxM
MaxM == 2
\* leading (batch) dimension of a 3-D activation: 1..MaxBatch
MaxBatch == 2

VARIABLES
  pc,             \* the statement of Compute that runs next, or "done"
  K_, N_, block_size_, nbits_,   \* the kernel's attributes
  a_shape,        \* shape of input 0: <<M, K>> or <<batch, M, K>>
  result,         \* "none" while running, then "OK" or the failure
  tmp_b_data_ptr, \* the scratch buffer: [state, size, written]
  decode,         \* DequantizeBlockwiseWeight: [state, pending]
  y,              \* the output tensor: [requested, size, written]
  gemm            \* MlasGemmBatch: [state, pending]

cvars == <<pc, K_, N_, block_size_, nbits_, a_shape, result,
           tmp_b_data_ptr, decode, y, gemm>>

vars == <<kvars, cvars>>

ComputeParked ==
  /\ pc = "parked"
  /\ K_ = 0
  /\ N_ = 0
  /\ block_size_ = 0
  /\ nbits_ = 0
  /\ a_shape = <<>>
  /\ result = "none"
  /\ tmp_b_data_ptr = [state |-> "none", size |-> 0, written |-> {}]
  /\ decode = [state |-> "none", pending |-> {}]
  /\ y = [requested |-> FALSE, size |-> 0, written |-> {}]
  /\ gemm = [state |-> "none", pending |-> {}]

\* K_ is a multiple of the block size (the packed blob's layout invariant).
AttrK == {32, 64}
AShapes ==
  {<<m, ka>> : m \in 0..MaxM, ka \in AttrK}
    \cup {<<b, m, ka>> : b \in 1..MaxBatch, m \in 0..MaxM, ka \in AttrK}

Init ==
  /\ KernelParked
  /\ pc = "entry"
  /\ K_ \in AttrK
  /\ N_ \in 1..MaxRows
  /\ block_size_ \in {16, 32}
  /\ nbits_ \in {4, 8}
  /\ a_shape \in AShapes
  /\ result = "none"
  /\ tmp_b_data_ptr = [state |-> "none", size |-> 0, written |-> {}]
  /\ decode = [state |-> "none", pending |-> {}]
  /\ y = [requested |-> FALSE, size |-> 0, written |-> {}]
  /\ gemm = [state |-> "none", pending |-> {}]

\* mutant: the shape check moved behind the GEMM
SuccHelperAfterGemm(p) ==
  CASE p = "entry" -> "enforce"
    [] p = "enforce" -> "get_allocator"
    [] p = "get_allocator" -> "make_ptr"
    [] p = "make_ptr" -> "decode"
    [] p = "decode" -> "output"
    [] p = "output" -> "empty_check"
    [] p = "empty_check" -> "gemm"
    [] p = "gemm" -> "helper"
    [] p = "helper" -> "return"

\* mutant: the decode moved behind the GEMM
SuccDecodeAfterGemm(p) ==
  CASE p = "entry" -> "enforce"
    [] p = "enforce" -> "get_allocator"
    [] p = "get_allocator" -> "make_ptr"
    [] p = "make_ptr" -> "helper"
    [] p = "helper" -> "output"
    [] p = "output" -> "empty_check"
    [] p = "empty_check" -> "gemm"
    [] p = "gemm" -> "decode"
    [] p = "decode" -> "return"

\* The statements of Compute in source order.
Succ(p) ==
  CASE p = "entry" -> "enforce"
    [] p = "enforce" -> "get_allocator"
    [] p = "get_allocator" -> "make_ptr"
    [] p = "make_ptr" -> "decode"
    [] p = "decode" -> "helper"
    [] p = "helper" -> "output"
    [] p = "output" -> "empty_check"
    [] p = "empty_check" -> "gemm"
    [] p = "gemm" -> "return"

\* Leaving Compute, by return or by exception: the unique_ptr's destructor
\* gives the scratch buffer back.
ScopeExit(ptr) ==
  IF ptr.state = "alive" THEN [ptr EXCEPT !.state = "released"] ELSE ptr

\* lines 45-55: the inputs and their data pointers are fetched
ComputeEntry ==
  /\ pc = "entry"
  /\ pc' = Succ("entry")
  /\ UNCHANGED <<K_, N_, block_size_, nbits_, a_shape, result,
                 tmp_b_data_ptr, decode, y, gemm>>

\* mutant: only the bit width is checked
ConfigSupportedBitsOnly(bits, bs) == bits = 4

\* the two ORT_ENFORCE conditions of lines 57-58
ConfigSupported(bits, bs) == bits = 4 /\ bs = 32

ComputeEnforce ==
  /\ pc = "enforce"
  /\ IF ConfigSupported(nbits_, block_size_)
       THEN /\ pc' = Succ("enforce")
            /\ UNCHANGED <<result, tmp_b_data_ptr>>
       ELSE /\ pc' = "done"
            /\ result' = "EnforceFailed"
            /\ tmp_b_data_ptr' = ScopeExit(tmp_b_data_ptr)
  /\ UNCHANGED <<K_, N_, block_size_, nbits_, a_shape, decode, y, gemm>>

\* lines 63-65: the context hands out its temp-space allocator, or fails
ComputeGetAllocator ==
  /\ pc = "get_allocator"
  /\ \E ok \in BOOLEAN :
       IF ok
         THEN /\ pc' = Succ("get_allocator")
              /\ UNCHANGED <<result, tmp_b_data_ptr>>
         ELSE /\ pc' = "done"
              /\ result' = "AllocatorError"
              /\ tmp_b_data_ptr' = ScopeExit(tmp_b_data_ptr)
  /\ UNCHANGED <<K_, N_, block_size_, nbits_, a_shape, decode, y, gemm>>

\* line 66: K_ * N_ floats of scratch, or the allocation throws
ComputeMakeUniquePtr ==
  /\ pc = "make_ptr"
  /\ \E ok \in BOOLEAN :
       IF ok
         THEN /\ pc' = Succ("make_ptr")
              /\ tmp_b_data_ptr' = [state |-> "alive", size |-> K_ * N_, written |-> {}]
              /\ UNCHANGED result
         ELSE /\ pc' = "done"
              /\ result' = "AllocationFailed"
              /\ tmp_b_data_ptr' = ScopeExit(tmp_b_data_ptr)
  /\ UNCHANGED <<K_, N_, block_size_, nbits_, a_shape, decode, y, gemm>>

\* line 67: DequantizeBlockwiseWeight<float, 32, 4> is called; it hands one
\* task per block to the thread pool
ComputeDecode ==
  /\ pc = "decode"
  /\ pc' = "decoding"
  /\ decode' = [state |-> "running", pending |-> 0..(N_ * (K_ \div 32) - 1)]
  /\ UNCHANGED <<K_, N_, block_size_, nbits_, a_shape, result,
                 tmp_b_data_ptr, y, gemm>>

\* one pool task: block b is expanded into its 32 floats of the scratch
DecodeBlock(b) ==
  /\ pc = "decoding"
  /\ b \in decode.pending
  /\ decode' = [decode EXCEPT !.pending = @ \ {b}]
  /\ tmp_b_data_ptr' =
       [tmp_b_data_ptr EXCEPT !.written = @ \cup {b * 32 + e : e \in 0..31}]
  /\ UNCHANGED <<pc, K_, N_, block_size_, nbits_, a_shape, result, y, gemm>>

\* the parallel-for has finished every task: the decoder returns
DecodeReturn ==
  /\ pc = "decoding"
  /\ decode.pending = {}
  /\ decode' = [decode EXCEPT !.state = "returned"]
  /\ pc' = Succ("decode")
  /\ UNCHANGED <<K_, N_, block_size_, nbits_, a_shape, result,
                 tmp_b_data_ptr, y, gemm>>

\* MatMulComputeHelper::Compute(a->Shape(), {N_, K_}, false, true): the
\* activation's inner dimension must be K_
HelperOk(shape, kk) == shape[Len(shape)] = kk
HelperM(shape) == shape[Len(shape) - 1]
\* one GEMM sub-problem per leading index of the activation
HelperBatches(shape) == IF Len(shape) = 3 THEN shape[1] ELSE 1
HelperOutputSize(shape, nn) == HelperBatches(shape) * HelperM(shape) * nn

\* lines 69-73
ComputeHelper ==
  /\ pc = "helper"
  /\ IF HelperOk(a_shape, K_)
       THEN /\ pc' = Succ("helper")
            /\ UNCHANGED <<result, tmp_b_data_ptr>>
       ELSE /\ pc' = "done"
            /\ result' = "ShapeError"
            /\ tmp_b_data_ptr' = ScopeExit(tmp_b_data_ptr)
  /\ UNCHANGED <<K_, N_, block_size_, nbits_, a_shape, decode, y, gemm>>

\* line 75: the output tensor is requested with the helper's shape
ComputeOutput ==
  /\ pc = "output"
  /\ y' = [requested |-> TRUE, size |-> HelperOutputSize(a_shape, N_),
            written |-> {}]
  /\ pc' = Succ("output")
  /\ UNCHANGED <<K_, N_, block_size_, nbits_, a_shape, result,
                 tmp_b_data_ptr, decode, gemm>>

\* lines 77-79: nothing to compute for an empty output
ComputeEmptyCheck ==
  /\ pc = "empty_check"
  /\ IF y.size = 0
       THEN /\ pc' = "done"
            /\ result' = "OK"
            /\ tmp_b_data_ptr' = ScopeExit(tmp_b_data_ptr)
       ELSE /\ pc' = Succ("empty_check")
            /\ UNCHANGED <<result, tmp_b_data_ptr>>
  /\ UNCHANGED <<K_, N_, block_size_, nbits_, a_shape, decode, y, gemm>>

\* lines 81-103: the sub-problems are set up and MlasGemmBatch is called
ComputeGemm ==
  /\ pc = "gemm"
  /\ pc' = "gemm_running"
  /\ gemm' = [state |-> "running", pending |-> 0..(HelperBatches(a_shape) - 1)]
  /\ UNCHANGED <<K_, N_, block_size_, nbits_, a_shape, result,
                 tmp_b_data_ptr, decode, y>>

\* sub-problem i: C_i = A_i * B^T, read from the scratch, stored to y
GemmBatch(i) ==
  /\ pc = "gemm_running"
  /\ i \in gemm.pending
  /\ gemm' = [gemm EXCEPT !.pending = @ \ {i}]
  /\ LET len == HelperM(a_shape) * N_
     IN  y' = [y EXCEPT !.written = @ \cup {i * len + j : j \in 0..(len - 1)}]
  /\ UNCHANGED <<pc, K_, N_, block_size_, nbits_, a_shape, result,
                 tmp_b_data_ptr, decode>>

\* every sub-problem is finished: MlasGemmBatch returns
GemmReturn ==
  /\ pc = "gemm_running"
  /\ gemm.pending = {}
  /\ gemm' = [gemm EXCEPT !.state = "returned"]
  /\ pc' = Succ("gemm")
  /\ UNCHANGED <<K_, N_, block_size_, nbits_, a_shape, result,
                 tmp_b_data_ptr, decode, y>>

\* line 105
ComputeReturn ==
  /\ pc = "return"
  /\ pc' = "done"
  /\ result' = "OK"
  /\ tmp_b_data_ptr' = ScopeExit(tmp_b_data_ptr)
  /\ UNCHANGED <<K_, N_, block_size_, nbits_, a_shape, decode, y, gemm>>

Next ==
  \/ ComputeEntry /\ UNCHANGED kvars
  \/ ComputeEnforce /\ UNCHANGED kvars
  \/ ComputeGetAllocator /\ UNCHANGED kvars
  \/ ComputeMakeUniquePtr /\ UNCHANGED kvars
  \/ ComputeDecode /\ UNCHANGED kvars
  \/ \E b \in decode.pending : DecodeBlock(b) /\ UNCHANGED kvars
  \/ DecodeReturn /\ UNCHANGED kvars
  \/ ComputeHelper /\ UNCHANGED kvars
  \/ ComputeOutput /\ UNCHANGED kvars
  \/ ComputeEmptyCheck /\ UNCHANGED kvars
  \/ ComputeGemm /\ UNCHANGED kvars
  \/ \E i \in gemm.pending : GemmBatch(i) /\ UNCHANGED kvars
  \/ GemmReturn /\ UNCHANGED kvars
  \/ ComputeReturn /\ UNCHANGED kvars

Spec == Init /\ [][Next]_vars

KernelNext ==
  \/ Dequantize4Bits /\ UNCHANGED cvars
  \/ \E bx \in pending : KernelBlock(bx) /\ UNCHANGED cvars
  \/ \E bx \in pending : KernelBlockOutOfRange(bx) /\ UNCHANGED cvars

KernelInit ==
  /\ KernelInputs
  /\ ComputeParked

SpecKernel == KernelInit /\ [][KernelNext]_vars

\* ----------------------------------------------------- Compute: properties
Failed == result \notin {"none", "OK"}

\* C2: a call whose output shape has zero elements returns success without
\* having allocated the scratch buffer, called the decoder or called the GEMM.
C2_EmptyOutputDoesNoWork ==
  (pc = "done" /\ result = "OK" /\ y.requested /\ y.size = 0) =>
    /\ tmp_b_data_ptr.state = "none"
    /\ decode.state = "none"
    /\ gemm.state = "none"

\* C3: a call that ends in a shape error has not called the decoder.
C3_ShapeErrorBeforeDecode ==
  result = "ShapeError" => decode.state = "none"

\* C5: with bits # 4 or block_size # 32 the call fails with the
\* unsupported-configuration error, and at no point of it has the scratch
\* buffer been allocated, the decoder run, the output tensor been requested
\* or the GEMM been called.
C5_UnsupportedConfigFailsFirst ==
  (nbits_ # 4 \/ block_size_ # 32) =>
    /\ tmp_b_data_ptr.state = "none"
    /\ decode.state = "none"
    /\ ~y.requested
    /\ gemm.state = "none"
    /\ pc = "done" => result = "EnforceFailed"

C5_Witness ==
  /\ pc = "done"
  /\ result = "EnforceFailed"
  /\ nbits_ = 4
  /\ block_size_ = 16

\* C7: on every path that ends in a failure no element of the output tensor
\* has been written and the GEMM has not been called.
C7_FailureExposesNothing ==
  Failed =>
    /\ y.written = {}
    /\ gemm.state = "none"

C7_Witness ==
  /\ pc = "done"
  /\ result = "ShapeError"
  /\ decode.state = "returned"
  /\ tmp_b_data_ptr.written # {}

\* C8: the GEMM is called only after the decoder has returned with the whole
\* N*K scratch buffer written; from the GEMM's call on nothing is written to
\* the scratch buffer; and the scratch buffer is alive while the GEMM runs,
\* released only once it has returned.
C8_DecodeThenGemm ==
  [][/\ gemm.state # "none" =>
          tmp_b_data_ptr'.written = tmp_b_data_ptr.written
     /\ gemm'.state # "none" =>
          /\ decode'.state = "returned"
          /\ tmp_b_data_ptr'.written = 0..(N_ * K_ - 1)
     /\ gemm'.state = "running" => tmp_b_data_ptr'.state = "alive"
     /\ (gemm'.state # "none" /\ tmp_b_data_ptr'.state = "released") =>
          gemm'.state = "returned"
     /\ decode'.state = "running" => tmp_b_data_ptr'.state = "alive"]_vars

C8_Witness ==
  /\ pc = "done"
  /\ result = "OK"
  /\ gemm.state = "returned"
  /\ tmp_b_data_ptr.state = "released"
  /\ Cardinality(tmp_b_data_ptr.written) = 128
  /\ Cardinality(y.written) > 1


\* ------------------------------------------------------ kernel: properties
Launched == gpc \in {"running", "done", "fault"}

\* every thread of the launch: <<blockIdx.x, threadIdx.x>>
Workers(l) == (0..(l.gridDim - 1)) \X (0..(l.blockDim - 1))

\* the 8 output indices one thread stores to
ElementRange(w, l) ==
  {ElementOffset(w[1], w[2], l) + j : j \in 0..7}

\* C1: with block_size = 32 (k a multiple of 32), every thread of the launch
\* computes a block_id below n * (k / block_size) and an element_offset with
\* element_offset + 8 <= n * k, so that no thread touches memory outside the
\* tensors.
C1_EveryWorkerInBounds ==
  (Launched /\ block_size = 32) =>
    \A w \in Workers(launch) :
      /\ BlockId(w[1], w[2], launch) < n * (k \div block_size)
      /\ ElementOffset(w[1], w[2], launch) + 8 <= n * k

\* C4: the kernel is launched only when block_size = 32; any other
\* block_size makes Dequantize4Bits fail before the launch.
C4_LaunchOnlyBlockSize32 ==
  /\ Launched => block_size = 32
  /\ (gpc # "call" /\ block_size # 32) => gpc = "threw"

\* C6: with block_size = 32, the threads' 8-element ranges under the grid
\* Dequantize4Bits computes are pairwise disjoint and every output index in
\* [0, n*k) lies in the range of a thread: each index has exactly one writer.
C6_ExactlyOneWorkerPerElement ==
  (Launched /\ block_size = 32) =>
    LET ws == Workers(launch)
        covered == UNION {ElementRange(w, launch) : w \in ws}
    IN  /\ Cardinality(covered) = 8 * Cardinality(ws)
        /\ \A i \in 0..(n * k - 1) : i \in covered

C6_Witness ==
  /\ gpc = "done"
  /\ block_size = 32
  /\ launch.gridDim = 2
  /\ Cardinality(output) = n * k

\* the stores the finished grid makes when it is given the table zps
GridStores(l, zps) == UNION {BlockStores(bx, l, zps) : bx \in 0..(l.gridDim - 1)}

\* C9: a decode with a null zero_points pointer stores exactly what a decode
\* with an explicit zero-point table holding 8 in every entry stores.
C9_NullZeroPointsIsAllEights ==
  (Launched /\ zero_points = NullPtr) =>
    LET eights == [b \in 0..(TotalBlocks - 1) |-> 8]
        expected == GridStores(launch, eights)
    IN  /\ output \subseteq expected
        /\ gpc = "done" => output = expected

C9_Witness ==
  /\ gpc = "done"
  /\ zero_points = NullPtr
  /\ output # {}
  /\ \E p \in output : p[2] # 0

\* the reference value of output element i: nibble * scale - scale * zp of the
\* block i lies in, low nibble of byte i/2 for an even element, high nibble
\* for an odd one
ReferenceValue(i) ==
  LET b == i \div 32
      e == i % 32
      byte == quant_data[i \div 2]
      nibble == IF e % 2 = 0 THEN byte % 16 ELSE byte \div 16
      zp == IF zero_points = NullPtr THEN 8 ELSE zero_points[b]
  IN  (nibble * scales_data[b]) - (scales_data[b] * zp)

\* C10: with block_size = 32, every value stored at an output index i is the
\* reference value of i, a finished kernel has stored to every index, and the
\* 8 elements of every in-range thread lie in the one block whose scale and
\* zero point the thread read.
C10_KernelMatchesReference ==
  (Launched /\ block_size = 32) =>
    /\ \A p \in output : p[2] = ReferenceValue(p[1])
    /\ gpc = "done" => {p[1] : p \in output} = 0..(n * k - 1)
    /\ \A w \in Workers(launch) :
         InBounds(w[1], w[2], launch) =>
           \A i \in ElementRange(w, launch) :
             i \div 32 = BlockId(w[1], w[2], launch)

C10_Witness ==
  /\ gpc = "done"
  /\ block_size = 32
  /\ zero_points # NullPtr
  /\ \E p, q \in output : p[1] \div 32 # q[1] \div 32 /\ p[2] # q[2]
  /\ \E p \in output : p[1] % 2 = 1 /\ p[2] # 0

====
